---- MODULE Spec2Model ----
(***************************************************************************)
(* Model of src/utils.py: cal_subsurface_flow_depth and cal_safety_factor. *)
(*                                                                         *)
(* Numbers.  A float is modelled as an exact rational n/d (d >= 0, lowest  *)
(* terms); d = 0 encodes the IEEE specials numpy produces on division by   *)
(* zero: 1/0 = +inf, -1/0 = -inf, 0/0 = NaN.  Rounding error and signed    *)
(* zeros are not modelled.                                                 *)
(*                                                                         *)
(* Arrays.  A raster is a function 1..NCells -> float (all rasters of one  *)
(* call share that shape); a layer stack is a sequence of rasters.  Arrays *)
(* and lists live in a heap of named objects, and the program's variables  *)
(* hold references into it, so that an assignment through a reference is   *)
(* seen by every holder of that reference, as in Python.                   *)
(*                                                                         *)
(* Inputs.  Rasters are float arrays of finite values; cal_safety_factor   *)
(* is called with its default material parameters, on the flow depth the   *)
(* first stage returned and the same soil depth.                           *)
(***************************************************************************)
EXTENDS Integers, Sequences, FiniteSets, TLC

\* ------------------------------------------------------------------ bounds
\* cells per raster
NCells == 1
\* longest moisture stack a caller passes
MaxLayers == 2

Cells == 1..NCells

\* ------------------------------------------------------------------ floats
Abs(x) == IF x < 0 THEN -x ELSE x
Sgn(x) == IF x > 0 THEN 1 ELSE IF x < 0 THEN -1 ELSE 0

RECURSIVE GCD(_, _)
GCD(a, b) == IF b = 0 THEN a ELSE GCD(b, a % b)

\* the float n/d, d >= 0, in lowest terms
R(n, d) ==
    IF d = 0 THEN [n |-> Sgn(n), d |-> 0]
    ELSE LET g == GCD(Abs(n), d) IN [n |-> n \div g, d |-> d \div g]

NaN == [n |-> 0, d |-> 0]
Zero == R(0, 1)
One == R(1, 1)
IsNaN(a) == a.d = 0 /\ a.n = 0
IsInf(a) == a.d = 0 /\ a.n # 0
IsFinite(a) == a.d # 0

FNeg(a) == [n |-> -a.n, d |-> a.d]
FMul(a, b) ==
    IF IsNaN(a) \/ IsNaN(b) THEN NaN
    ELSE LET g1 == GCD(Abs(a.n), b.d)
             g2 == GCD(Abs(b.n), a.d)
         IN  IF a.d = 0 \/ b.d = 0 THEN R(Sgn(a.n) * Sgn(b.n), 0)
             ELSE R((a.n \div g1) * (b.n \div g2), (a.d \div g2) * (b.d \div g1))
FRecip(a) == IF a.n < 0 THEN [n |-> -a.d, d |-> -a.n] ELSE [n |-> a.d, d |-> a.n]
\* x / 0 is +-inf, 0 / 0 and inf / inf are NaN, x / inf is 0
FDiv(a, b) == IF IsNaN(a) \/ IsNaN(b) THEN NaN ELSE FMul(a, FRecip(b))
FAdd(a, b) ==
    IF IsNaN(a) \/ IsNaN(b) THEN NaN
    ELSE IF IsInf(a) /\ IsInf(b) THEN (IF a.n = b.n THEN a ELSE NaN)
    ELSE IF IsInf(a) THEN a
    ELSE IF IsInf(b) THEN b
    ELSE LET g == GCD(a.d, b.d)
         IN  R(a.n * (b.d \div g) + b.n * (a.d \div g), (a.d \div g) * b.d)
FSub(a, b) == FAdd(a, FNeg(b))

\* comparisons: every comparison with NaN is false
FLeq(a, b) ==
    /\ ~IsNaN(a)
    /\ ~IsNaN(b)
    /\ IF IsInf(a) \/ IsInf(b)
       THEN (IF IsInf(a) THEN a.n ELSE 0) <= (IF IsInf(b) THEN b.n ELSE 0)
       ELSE a.n * b.d <= b.n * a.d
FGeq(a, b) == FLeq(b, a)
FLt(a, b) == FLeq(a, b) /\ a # b
FGt(a, b) == FLt(b, a)

\* ------------------------------------------------------------------ numpy
\* a[a >= t] = t and a[a <= t] = t, at one cell (utils.py lines 49 and 50)
\* (ClipUpperMissing, ClipLowerMissing: the line left out)
ClipUpperMissing(v, t) == v
ClipUpper(v, t) == IF FGeq(v, t) THEN t ELSE v
ClipLowerMissing(v, t) == v
ClipLower(v, t) == IF FLeq(v, t) THEN t ELSE v

AssignWhereGeq(a, t) == [c \in DOMAIN a |-> ClipUpper(a[c], t)]
AssignWhereLeq(a, t) == [c \in DOMAIN a |-> ClipLower(a[c], t)]
\* array - scalar: a new array
\* (ArraySubMissing: the base not subtracted; ArraySubReversed: operands swapped)
ArraySubMissing(a, t) == a
ArraySubReversed(a, t) == [c \in DOMAIN a |-> FSub(t, a[c])]
ArraySub(a, t) == [c \in DOMAIN a |-> FSub(a[c], t)]

\* np.copy(a): a new object holding a's values
\* (NpCopyAlias: soil_layer = soil_depth, a second name for the same object)
NpCopyAlias(h, src) == [heap |-> h, ref |-> src]
NpCopy(h, src) == [heap |-> [h EXCEPT !["copy"] = h[src]], ref |-> "copy"]

\* soil_water_layer * soil_depth_layer / porosity, elementwise over the stack
\* (WaterDepthTimesPorosity: * porosity for / porosity)
WaterDepthTimesPorosity(swl, sdl, por) ==
    [l \in DOMAIN swl |-> [c \in Cells |-> FMul(FMul(swl[l][c], sdl[l][c]), por)]]
WaterDepth(swl, sdl, por) ==
    [l \in DOMAIN swl |-> [c \in Cells |-> FDiv(FMul(swl[l][c], sdl[l][c]), por)]]

\* np.sum(stack, axis=0)
RECURSIVE AxisSum(_, _)
AxisSum(stack, n) ==
    IF n = 0 THEN [c \in Cells |-> Zero]
    ELSE LET rest == AxisSum(stack, n - 1)
         IN  [c \in Cells |-> FAdd(rest[c], stack[n][c])]
NpSum(stack) == AxisSum(stack, Len(stack))

\* Python's list[k], k >= 0, on a TLA+ sequence
Item(list, k) == list[k + 1]
InRange(list, k) == k < Len(list)

\* the function's value when no line raises (lines 47-58 as one expression):
\* layer k's thickness is the soil depth clipped from above, then from below,
\* less the layer's base
LayerThickness(sd, lt, k) ==
    ArraySub(AssignWhereLeq(AssignWhereGeq(sd, Item(lt, k + 1)), Item(lt, k)),
             Item(lt, k))
FlowDepth(sd, swl, lt, por) ==
    NpSum(WaterDepth(swl, [l \in DOMAIN swl |-> LayerThickness(sd, lt, l - 1)], por))

\* ------------------------------------------------------------------ inputs
\* the default of layer_threshold: one list object shared by every call
DefaultThreshold == <<Zero, R(7, 100), R(28, 100), One, R(2, 1)>>

\* soil depths below, on, between and beyond the thresholds
SoilValues == {R(-1, 2), Zero, R(7, 100), R(1, 2), One, R(5, 2)}
\* volumetric water contents in [0, 1]
MoistureValues == {R(1, 5), One}
PorosityValues == {R(1, 2), One}
CallerThresholds ==
    { <<Zero, One, R(2, 1)>>, <<Zero, One>>, <<Zero, One, R(1, 2)>> }

Rasters(S) == [Cells -> S]
Stacks == UNION {[1..n -> Rasters(MoistureValues)] : n \in 1..MaxLayers}

\* slope angles, in radians, with their sine and cosine
Angles == {"0", "atan(3/4)"}
NpSin(a) == IF a = "0" THEN Zero ELSE R(3, 5)
NpCos(a) == IF a = "0" THEN One ELSE R(4, 5)

\* material parameters: the defaults of cal_safety_factor
root_cohesion == 5000
soil_cohesion == 5000
soil_bulk_density == 1300
water_density == 1000
gravity_acceleration == R(9806, 1000)
\* np.tan(35 * np.pi / 180) = 0.70020..., an irrational: its nearest tenth
TanFrictionAngle == R(7, 10)

\* ------------------------------------------------------------------ state
VARIABLES
    pc,               \* the line the running call is at, or how it ended
    heap,             \* object name -> value
    layer_threshold,  \* the list layer_threshold refers to: "default" or "lt"
    porosity,
    i,                \* loop index
    soil_layer,       \* the array soil_layer refers to
    passed,           \* the argument values as the caller passed them
    exc,              \* the exception raised, if any
    sf                \* cal_safety_factor's locals and result

vars == <<pc, heap, layer_threshold, porosity, i, soil_layer, passed, exc, sf>>

Null == <<>>
Objects == {"default", "sd", "swl", "lt", "copy", "diff", "sdl", "wdl", "flow"}
EmptyHeap(default) == [o \in Objects |-> IF o = "default" THEN default ELSE Null]

Init ==
    /\ pc = "idle"
    /\ heap = EmptyHeap(DefaultThreshold)
    /\ layer_threshold = "default"
    /\ porosity = One
    /\ i = 0
    /\ soil_layer = "sd"
    /\ passed = Null
    /\ exc = "none"
    /\ sf = Null

\* --------------------------------------------- cal_subsurface_flow_depth
\* the caller builds the arguments and calls; lines 44-45 allocate
\* soil_depth_layer with np.empty (its rows hold nothing yet)
Call(sd, swl, lt, por) ==
    /\ layer_threshold' = IF lt = Null THEN "default" ELSE "lt"
    /\ heap' = [heap EXCEPT !["sd"] = sd, !["swl"] = swl, !["lt"] = lt,
                            !["sdl"] = [l \in DOMAIN swl |-> Null]]
    /\ porosity' = por
    /\ passed' = [sd |-> sd, swl |-> swl,
                  lt |-> IF lt = Null THEN heap["default"] ELSE lt]
    /\ i' = 0
    /\ pc' = "L47"
    /\ UNCHANGED <<soil_layer, exc, sf>>

\* for i in range(0, len(soil_water_layer))
L47 ==
    /\ pc = "L47"
    /\ pc' = IF i < Len(heap["swl"]) THEN "L48" ELSE "L54"
    /\ UNCHANGED <<heap, layer_threshold, porosity, i, soil_layer, passed, exc, sf>>

\* soil_layer = np.copy(soil_depth)
L48 ==
    /\ pc = "L48"
    /\ LET r == NpCopy(heap, "sd")
       IN  heap' = r.heap /\ soil_layer' = r.ref
    /\ pc' = "L49"
    /\ UNCHANGED <<layer_threshold, porosity, i, passed, exc, sf>>

\* soil_layer[soil_layer >= layer_threshold[i + 1]] = layer_threshold[i + 1]
L49 ==
    /\ pc = "L49"
    /\ IF InRange(heap[layer_threshold], i + 1)
       THEN /\ heap' = [heap EXCEPT ![soil_layer] =
                   AssignWhereGeq(@, Item(heap[layer_threshold], i + 1))]
            /\ pc' = "L50"
            /\ exc' = exc
       ELSE /\ exc' = "IndexError"
            /\ pc' = "raised"
            /\ heap' = heap
    /\ UNCHANGED <<layer_threshold, porosity, i, soil_layer, passed, sf>>

\* soil_layer[soil_layer <= layer_threshold[i]] = layer_threshold[i]
L50 ==
    /\ pc = "L50"
    /\ heap' = [heap EXCEPT ![soil_layer] =
                   AssignWhereLeq(@, Item(heap[layer_threshold], i))]
    /\ pc' = "L51"
    /\ UNCHANGED <<layer_threshold, porosity, i, soil_layer, passed, exc, sf>>

\* soil_layer = soil_layer - layer_threshold[i]
L51 ==
    /\ pc = "L51"
    /\ heap' = [heap EXCEPT !["diff"] =
                   ArraySub(heap[soil_layer], Item(heap[layer_threshold], i))]
    /\ soil_layer' = "diff"
    /\ pc' = "L52"
    /\ UNCHANGED <<layer_threshold, porosity, i, passed, exc, sf>>

\* soil_depth_layer[i] = soil_layer, and the loop's next index
L52 ==
    /\ pc = "L52"
    /\ heap' = [heap EXCEPT !["sdl"][i + 1] = heap[soil_layer]]
    /\ i' = i + 1
    /\ pc' = "L47"
    /\ UNCHANGED <<layer_threshold, porosity, soil_layer, passed, exc, sf>>

\* water_depth_layer = soil_water_layer * soil_depth_layer/porosity
L54 ==
    /\ pc = "L54"
    /\ heap' = [heap EXCEPT !["wdl"] = WaterDepth(heap["swl"], heap["sdl"], porosity)]
    /\ pc' = "L56"
    /\ UNCHANGED <<layer_threshold, porosity, i, soil_layer, passed, exc, sf>>

\* subsurface_flow_depth = np.sum(water_depth_layer, axis=0); return it
L56 ==
    /\ pc = "L56"
    /\ heap' = [heap EXCEPT !["flow"] = NpSum(heap["wdl"])]
    /\ pc' = "returned"
    /\ UNCHANGED <<layer_threshold, porosity, i, soil_layer, passed, exc, sf>>

\* ------------------------------------------------------ cal_safety_factor
FromInt(k) == R(k, 1)

\* relative_wetness = subsurface_flow_depth / soil_depth, at one cell
\* (RelativeWetnessClamped: the ratio capped at 1)
RelativeWetnessClamped(flow, depth) ==
    IF FGt(FDiv(flow, depth), One) THEN One ELSE FDiv(flow, depth)
RelativeWetness(flow, depth) == FDiv(flow, depth)

\* lines 68-82 at one cell
SafetyFactorAt(angle, flow, depth) ==
    LET tan_fi == TanFrictionAngle
        relative_wetness == RelativeWetness(flow, depth)
        left_term ==
            FDiv(FDiv(FromInt(root_cohesion + soil_cohesion),
                      FMul(FMul(depth, FromInt(soil_bulk_density)),
                           gravity_acceleration)),
                 NpSin(angle))
        right_term ==
            FDiv(FMul(FMul(NpCos(angle), tan_fi),
                      FSub(One, FDiv(FMul(relative_wetness, FromInt(water_density)),
                                     FromInt(soil_bulk_density)))),
                 NpSin(angle))
    IN  [relative_wetness |-> relative_wetness,
         left_term |-> left_term,
         right_term |-> right_term,
         safety_factor |-> FAdd(left_term, right_term)]

\* the second stage of the pipeline: the caller passes the flow depth just
\* returned, the same soil depth and a slope raster; no line of the function
\* raises, so it returns
CalSafetyFactor(slope_angle) ==
    /\ pc = "returned"
    /\ sf' = [slope_angle |-> slope_angle,
              cell |-> [c \in Cells |->
                  SafetyFactorAt(slope_angle[c], heap["flow"][c], heap["sd"][c])]]
    /\ pc' = "sf_returned"
    /\ UNCHANGED <<heap, layer_threshold, porosity, i, soil_layer, passed, exc>>

\* the caller drops the call's arrays; the default list object lives on
Finish ==
    /\ pc \in {"returned", "raised", "sf_returned"}
    /\ pc' = "idle"
    /\ heap' = EmptyHeap(heap["default"])
    /\ layer_threshold' = "default"
    /\ porosity' = One
    /\ i' = 0
    /\ soil_layer' = "sd"
    /\ passed' = Null
    /\ exc' = "none"
    /\ sf' = Null

\* any call a caller can make; lt = Null leaves layer_threshold to its default
CallFlowDepth ==
    /\ pc = "idle"
    /\ \E sd \in Rasters(SoilValues), swl \in Stacks,
          lt \in CallerThresholds \cup {Null}, por \in PorosityValues :
          Call(sd, swl, lt, por)

Next ==
    \/ CallFlowDepth
    \/ L47 \/ L48 \/ L49 \/ L50 \/ L51 \/ L52 \/ L54 \/ L56
    \/ \E a \in Rasters(Angles) : CalSafetyFactor(a)
    \/ Finish

Spec == Init /\ [][Next]_vars

\* ------------------------------------------------------------------ claims
StrictlyIncreasing(lt) == \A k \in 1..(Len(lt) - 1) : FLt(lt[k], lt[k + 1])
InCall == pc # "idle"
\* the arguments of the running call
Thresholds == heap[layer_threshold]
SoilDepth == heap["sd"]
Moisture == heap["swl"]
\* rows 1..i of soil_depth_layer are the layers computed so far
Thickness(l, c) == heap["sdl"][l][c]
Width(l) == FSub(Thresholds[l + 1], Thresholds[l])
FlowResult == heap["flow"]
\* the preconditions the spec states for the aggregation
Preconditions ==
    /\ StrictlyIncreasing(Thresholds)
    /\ Thresholds[1] = Zero
    /\ Len(Moisture) = Len(Thresholds) - 1
    /\ FGt(porosity, Zero)
    /\ \A l \in DOMAIN Moisture, c \in Cells :
          FLeq(Zero, Moisture[l][c]) /\ FLeq(Moisture[l][c], One)

\* C1: for strictly increasing thresholds, every layer the loop has computed
\* and every cell, whatever its soil depth, 0 <= layer thickness <= the
\* bracket's width.
C1_LayerThicknessBounded ==
    (InCall /\ StrictlyIncreasing(Thresholds)) =>
        \A l \in 1..i, c \in Cells :
            FLeq(Zero, Thickness(l, c)) /\ FLeq(Thickness(l, c), Width(l))

\* a call that returned with one layer partly filled (neither clip acted) and
\* the next one empty (the lower clip acted)
C1_Witness ==
    /\ pc = "returned"
    /\ StrictlyIncreasing(Thresholds)
    /\ i = 2
    /\ \E c \in Cells :
          /\ FLt(Zero, Thickness(1, c)) /\ FLt(Thickness(1, c), Width(1))
          /\ Thickness(2, c) = Zero
          /\ FLt(SoilDepth[c], Thresholds[2])

\* C2: for strictly increasing thresholds, at a cell whose soil depth is
\* exactly the boundary between two computed layers, the lower layer is full
\* and the upper layer is empty.
C2_BoundaryBelongsToLowerLayer ==
    (InCall /\ StrictlyIncreasing(Thresholds)) =>
        \A l \in 1..(i - 1), c \in Cells :
            passed.sd[c] = Thresholds[l + 1] =>
                Thickness(l, c) = Width(l) /\ Thickness(l + 1, c) = Zero

\* thresholds [0, 1, 2] and soil depth 1: thicknesses 1 and 0
C2_Witness ==
    /\ pc = "returned"
    /\ Thresholds = <<Zero, One, R(2, 1)>>
    /\ i = 2
    /\ \E c \in Cells :
          passed.sd[c] = One /\ Thickness(1, c) = One /\ Thickness(2, c) = Zero

\* C3: under the preconditions (thresholds strictly increasing from 0, stack
\* of matching length, moisture in [0,1], porosity > 0) the flow depth at a
\* cell of non-negative soil depth is non-negative, and with porosity 1 it is
\* at most the cell's soil depth.
C3_FlowDepthBounds ==
    (pc = "returned" /\ Preconditions) =>
        \A c \in Cells :
            FLeq(Zero, SoilDepth[c]) =>
                /\ FLeq(Zero, FlowResult[c])
                /\ porosity = One => FLeq(FlowResult[c], SoilDepth[c])

\* porosity 1, a soil depth beyond the last threshold, and water in the column
C3_Witness ==
    /\ pc = "returned"
    /\ Preconditions
    /\ porosity = One
    /\ \E c \in Cells :
          /\ FGt(SoilDepth[c], Thresholds[Len(Thresholds)])
          /\ FGt(FlowResult[c], Zero)

\* C4: a call whose thresholds are not strictly increasing never returns a
\* flow-depth raster.
C4_NonMonotonicNeverReturns ==
    pc = "returned" => StrictlyIncreasing(Thresholds)

\* C5: a call whose stack length differs from len(thresholds) - 1 never
\* returns a flow-depth raster.
C5_LengthMismatchNeverReturns ==
    pc = "returned" => Len(Moisture) = Len(Thresholds) - 1

\* C6: cal_safety_factor never returns a NaN or an infinity at a cell whose
\* soil depth is 0 or whose slope angle is 0.
C6_SingularityNeverReturned ==
    pc = "sf_returned" =>
        \A c \in Cells :
            (SoilDepth[c] = Zero \/ NpSin(sf.slope_angle[c]) = Zero) =>
                IsFinite(sf.cell[c].safety_factor)

\* the inputs of the worked example at cell c, but for the thresholds
WorkedExampleAt(c) ==
    /\ pc = "returned"
    /\ SoilDepth[c] = One
    /\ Len(Moisture) = 1
    /\ Moisture[1][c] = R(1, 5)
    /\ porosity = R(1, 2)

\* C7 as stated: the default thresholds, soil depth 1, the one-layer stack
\* [0.2] and porosity 0.5 give flow depth 0.4.
C7_WorkedExampleDefault ==
    \A c \in Cells :
        (WorkedExampleAt(c) /\ layer_threshold = "default") =>
            FlowResult[c] = R(2, 5)

\* C7 amended: with thresholds [0, 1], the one layer covering depth 0-1,
\* soil depth 1, the one-layer stack [0.2] and porosity 0.5 give flow depth
\* (1 * 0.2) / 0.5 = 0.4.
C7_WorkedExampleAmended ==
    \A c \in Cells :
        (WorkedExampleAt(c) /\ Thresholds = <<Zero, One>>) =>
            FlowResult[c] = R(2, 5)

C7_Witness ==
    \E c \in Cells :
        WorkedExampleAt(c) /\ Thresholds = <<Zero, One>> /\ FlowResult[c] = R(2, 5)

\* C8: for strictly increasing thresholds and porosity > 0, raising one
\* layer's moisture at one cell, all else fixed, does not lower the flow depth
\* at that cell.
C8_MonotoneInMoisture ==
    (pc = "returned" /\ StrictlyIncreasing(Thresholds) /\ FGt(porosity, Zero)) =>
        \A l \in DOMAIN Moisture, c \in Cells, v \in MoistureValues :
            FGt(v, Moisture[l][c]) =>
                FGeq(FlowDepth(SoilDepth, [Moisture EXCEPT ![l][c] = v],
                               Thresholds, porosity)[c],
                     FlowResult[c])

\* a returned call for which some wetter stack gives strictly more flow
C8_Witness ==
    /\ pc = "returned"
    /\ StrictlyIncreasing(Thresholds)
    /\ \E l \in DOMAIN Moisture, c \in Cells, v \in MoistureValues :
          /\ FGt(v, Moisture[l][c])
          /\ FGt(FlowDepth(SoilDepth, [Moisture EXCEPT ![l][c] = v],
                           Thresholds, porosity)[c],
                 FlowResult[c])

\* C9: during and after every call the caller's soil depth raster, moisture
\* stack and threshold list hold the values passed, and the shared default
\* threshold list never changes.
C9_InputsNotMutated ==
    /\ heap["default"] = DefaultThreshold
    /\ InCall =>
          /\ heap["sd"] = passed.sd
          /\ heap["swl"] = passed.swl
          /\ heap[layer_threshold] = passed.lt

\* a call on the default list has returned, and its clipping changed values
\* (the first layer's thickness differs from the soil depth)
C9_Witness ==
    /\ pc = "returned"
    /\ layer_threshold = "default"
    /\ \E c \in Cells : Thickness(1, c) # passed.sd[c]

\* C10: the pipeline passes relative wetness through unclamped: at a cell of
\* positive soil depth, flow depth above soil depth gives relative wetness
\* above 1, and relative_wetness * water_density / bulk_density > 1 on a slope
\* with positive sine and cosine gives a negative friction term.
C10_WetnessUnclamped ==
    pc = "sf_returned" =>
        \A c \in Cells :
            FGt(SoilDepth[c], Zero) =>
                /\ FGt(FlowResult[c], SoilDepth[c]) =>
                      FGt(sf.cell[c].relative_wetness, One)
                /\ ( /\ FGt(FDiv(FMul(sf.cell[c].relative_wetness, FromInt(water_density)),
                                 FromInt(soil_bulk_density)), One)
                     /\ FGt(NpSin(sf.slope_angle[c]), Zero)
                     /\ FGt(NpCos(sf.slope_angle[c]), Zero) ) =>
                      FLt(sf.cell[c].right_term, Zero)

\* inputs within every precondition, porosity below 1, whose flow depth
\* exceeds the soil depth and whose friction term is negative
C10_Witness ==
    /\ pc = "sf_returned"
    /\ Preconditions
    /\ FLt(porosity, One)
    /\ \E c \in Cells :
          /\ FGt(SoilDepth[c], Zero)
          /\ FGt(FlowResult[c], SoilDepth[c])
          /\ FGt(sf.cell[c].relative_wetness, One)
          /\ FLt(sf.cell[c].right_term, Zero)
====
